---- MODULE Spec2Model ----
(***************************************************************************)
(* Model of the Ultra Multiplexer (src/main.go): one TCP listener shared   *)
(* by an HTTP server and a gRPC server through cmux, the startup sequence  *)
(* Initialize / Start (startMux, waitForServerReady, initGRPCClient), the  *)
(* /grpc-call handler and Stop.                                            *)
(*                                                                         *)
(* Threads of the model:                                                   *)
(*   main     main(): Initialize, then Start (pc)                          *)
(*   httpGo   goroutine of main.go:179-184 (httpServer.Serve)              *)
(*   grpcGo   goroutine of main.go:186-191 (grpcServer.Serve)              *)
(*   muxGo    goroutine of main.go:205-210 (mux.Serve)                     *)
(*   handler  one HTTP request goroutine running callGRPC (hPc)            *)
(*   stopper  a goroutine calling Stop at an arbitrary moment (stopPc)     *)
(*   clients  external TCP clients connecting to the port (connSt)         *)
(*   callers  further goroutines calling startMux (auxPc)                  *)
(* Every shared-memory access of the code is one step, so that the         *)
(* interleavings of the unlocked accesses are all explored.                *)
(***************************************************************************)
EXTENDS Naturals, Sequences, FiniteSets

\* ---------------------------------------------------------------- bounds
\* number of external client connections (specification SpecRoute)
MaxConns == 2
\* number of /grpc-call requests served (specification Spec)
MaxCalls == 2
\* number of calls of Stop (specification Spec)
MaxStops == 2
\* number of further callers of startMux (specification SpecStartMux)
MaxCallers == 2

\* ------------------------------------------------------ program constants
\* main.go:216  for attempts := 0; attempts < 20; attempts++
MaxAttempts == 20

Conns == 1 .. MaxConns

\* goroutines other than main that call startMux
Callers == 1 .. MaxCallers

\* What a freshly accepted connection starts with:
\*   "grpc"   HTTP/2 preface + HEADERS with content-type: application/grpc
\*   "h2"     HTTP/2 with another content-type
\*   "http1"  GET / HTTP/1.1
\*   "other"  anything else (truncated preface, unknown protocol)
Kinds == {"grpc", "h2", "http1", "other"}

VARIABLES
    pc,           \* position of main() in Initialize / Start
    listener,     \* um.listener:   "nil" | "open" | "closed"
    mux,          \* um.mux built by cmux.New
    matchers,     \* the mux's ordered sequence of (matcher, virtual listener)
    httpServer,   \* um.httpServer: "nil" | "open" | "closed"
    grpcServer,   \* um.grpcServer: "nil" | "open" | "closed"
    httpGo,       \* HTTP serve goroutine: "none"|"spawned"|"serving"|"exited"
    grpcGo,       \* gRPC serve goroutine
    muxGo,        \* mux.Serve goroutine
    muxLaunches,  \* number of go mux.Serve() statements executed
    mu,           \* um.mu: [w |-> holder of the write lock, r |-> readers]
    serverReady,  \* um.serverReady
    muxStarted,   \* um.muxStarted
    attempts,     \* waitForServerReady: loop counter
    httpReady,    \* waitForServerReady: local httpReady of the current attempt
    grpcReady,    \* waitForServerReady: local grpcReady of the current attempt
    probeAt,      \* [http, grpc |-> attempt in which the probe last ran, or
                  \*  MaxAttempts when it never ran]
    conn,         \* the dialed *grpc.ClientConn object: "none"|"open"|"closed"
    grpcConn,     \* um.grpcConn is non-nil (it then refers to conn)
    grpcClient,   \* um.grpcClient is non-nil
    pending,      \* initGRPCClient: stores of lines 277-279 not yet visible
    startErr,     \* error returned by Start: "none" | "notready" | "dial"
    stopPc,       \* position of the stopper in Stop
    stopsDone,    \* number of calls of Stop that have returned
    hPc,          \* position of the handler in callGRPC
    hCalls,       \* number of /grpc-call requests begun
    hRead,        \* value isGRPCClientReady returned to the current request
    hInvoked,     \* the current request invoked grpcClient.SayHello
    hStatus,      \* response of the current request
    connSt,       \* per client connection: state
    connKind,     \* per client connection: kind of its first bytes
    delivered,    \* per client connection: virtual listeners it was queued to
    auxPc         \* per further caller of startMux: its position in startMux

vars == << pc, listener, mux, matchers, httpServer, grpcServer, httpGo, grpcGo,
           muxGo, muxLaunches, mu, serverReady, muxStarted, attempts,
           httpReady, grpcReady, probeAt, conn, grpcConn, grpcClient, pending,
           startErr, stopPc, stopsDone, hPc, hCalls, hRead, hInvoked, hStatus,
           connSt, connKind, delivered, auxPc >>

initVars   == << listener, mux, matchers, httpServer, grpcServer >>
goVars     == << httpGo, grpcGo, muxGo, muxLaunches >>
flagVars   == << serverReady, muxStarted >>
waitVars   == << attempts, httpReady, grpcReady, probeAt >>
clientVars == << conn, grpcConn, grpcClient, pending >>
stopVars   == << stopPc, stopsDone >>
handVars   == << hPc, hCalls, hRead, hInvoked, hStatus >>
connVars   == << connSt, connKind, delivered >>
auxVars    == << auxPc >>

\* log.Fatalf (main.go:341, 345) ends the process: nothing runs afterwards.
Alive == pc # "exited"

\* NewUltraMultiplexer (main.go:141-150): every field zero, both flags false.
Init ==
    /\ pc = "created"
    /\ listener = "nil" /\ mux = FALSE /\ matchers = << >>
    /\ httpServer = "nil" /\ grpcServer = "nil"
    /\ httpGo = "none" /\ grpcGo = "none" /\ muxGo = "none"
    /\ muxLaunches = 0
    /\ mu = [w |-> "none", r |-> 0]
    /\ serverReady = FALSE /\ muxStarted = FALSE
    /\ attempts = 0 /\ httpReady = FALSE /\ grpcReady = FALSE
    /\ probeAt = [http |-> MaxAttempts, grpc |-> MaxAttempts]
    /\ conn = "none" /\ grpcConn = FALSE /\ grpcClient = FALSE
    /\ pending = {}
    /\ startErr = "none"
    /\ stopPc = "idle" /\ stopsDone = 0
    /\ hPc = "idle" /\ hCalls = 0
    /\ hRead = FALSE /\ hInvoked = FALSE /\ hStatus = "none"
    /\ connSt = [c \in Conns |-> "idle"]
    /\ connKind = [c \in Conns |-> "other"]
    /\ delivered = [c \in Conns |-> << >>]
    /\ auxPc = [i \in Callers |-> "idle"]


\* ------------------------------------------------------------- cmux routing
\* cmux.HTTP2MatchHeaderFieldSendSettings("content-type", "application/grpc")
\* accepts HTTP/2 whose HEADERS carry that field; cmux.Any() accepts every
\* connection; cmux.HTTP1Fast() accepts HTTP/1.x request lines.
Matches(m, kind) ==
    CASE m = "grpcHeader" -> kind = "grpc"
      [] m = "any"        -> TRUE
      [] m = "http1fast"  -> kind = "http1"
      [] OTHER            -> FALSE

\* The mux evaluates the matchers in registration order and stops at the
\* first that accepts: the result is that matcher's virtual listener, or
\* "none" when no matcher accepts.
RECURSIVE Route(_, _)
Route(ms, kind) ==
    IF ms = << >> THEN "none"
    ELSE IF Matches(Head(ms).m, kind) THEN Head(ms).l
    ELSE Route(Tail(ms), kind)

Reverse(s) == [i \in 1 .. Len(s) |-> s[Len(s) + 1 - i]]

\* The order reversed: the catch-all registered before the gRPC matcher.
RegistrationReversed ==
    << [m |-> "any", l |-> "http"], [m |-> "grpcHeader", l |-> "grpc"] >>

\* No catch-all: the HTTP listener behind cmux.HTTP1Fast() (part_000:201).
RegistrationNoFallback ==
    << [m |-> "grpcHeader", l |-> "grpc"], [m |-> "http1fast", l |-> "http"] >>

\* main.go:162-165: the gRPC header matcher is registered first and feeds
\* grpcListener, the catch-all is registered last and feeds httpListener.
Registration ==
    << [m |-> "grpcHeader", l |-> "grpc"], [m |-> "any", l |-> "http"] >>

\* ---------------------------------------------------------------- the mutex
Unlocked == mu.w = "none" /\ mu.r = 0

\* An Initialize that goes on after a failed net.Listen.
InitListenIgnoresError ==
    /\ pc = "created"
    /\ \E ok \in BOOLEAN :
          /\ listener' = IF ok THEN "open" ELSE listener
          /\ pc' = "i_mux"
    /\ UNCHANGED << mux, matchers, httpServer, grpcServer, goVars, mu, flagVars,
                    waitVars, clientVars, startErr, stopVars, handVars,
                    connVars, auxVars >>

\* --------------------------------------------------------------- Initialize
\* main.go:153-157: net.Listen; on failure Initialize returns the error and
\* stores nothing.
InitListen ==
    /\ pc = "created"
    /\ \E ok \in BOOLEAN :
          IF ok THEN /\ listener' = "open"
                     /\ pc' = "i_mux"
                ELSE /\ listener' = listener
                     /\ pc' = "init_err"
    /\ UNCHANGED << mux, matchers, httpServer, grpcServer, goVars, mu, flagVars,
                    waitVars, clientVars, startErr, stopVars, handVars,
                    connVars, auxVars >>

\* main.go:159  um.mux = cmux.New(listener)
InitMux ==
    /\ pc = "i_mux"
    /\ mux' = TRUE
    /\ pc' = "i_match_grpc"
    /\ UNCHANGED << listener, matchers, httpServer, grpcServer, goVars, mu,
                    flagVars, waitVars, clientVars, startErr, stopVars,
                    handVars, connVars, auxVars >>

\* main.go:162-164  grpcListener := um.mux.MatchWithWriters(...)
InitMatchFirst ==
    /\ pc = "i_match_grpc"
    /\ matchers' = Append(matchers, Registration[1])
    /\ pc' = "i_match_any"
    /\ UNCHANGED << listener, mux, httpServer, grpcServer, goVars, mu,
                    flagVars, waitVars, clientVars, startErr, stopVars,
                    handVars, connVars, auxVars >>

\* main.go:165  httpListener := um.mux.Match(cmux.Any())
InitMatchSecond ==
    /\ pc = "i_match_any"
    /\ matchers' = Append(matchers, Registration[2])
    /\ pc' = "i_http_srv"
    /\ UNCHANGED << listener, mux, httpServer, grpcServer, goVars, mu,
                    flagVars, waitVars, clientVars, startErr, stopVars,
                    handVars, connVars, auxVars >>

\* main.go:167-172  um.httpServer = &http.Server{...}
InitHTTPServer ==
    /\ pc = "i_http_srv"
    /\ httpServer' = "open"
    /\ pc' = "i_grpc_srv"
    /\ UNCHANGED << listener, mux, matchers, grpcServer, goVars, mu, flagVars,
                    waitVars, clientVars, startErr, stopVars, handVars,
                    connVars, auxVars >>

\* main.go:174-176  um.grpcServer = grpc.NewServer(); register the service
InitGRPCServer ==
    /\ pc = "i_grpc_srv"
    /\ grpcServer' = "open"
    /\ pc' = "i_go_http"
    /\ UNCHANGED << listener, mux, matchers, httpServer, goVars, mu, flagVars,
                    waitVars, clientVars, startErr, stopVars, handVars,
                    connVars, auxVars >>

\* main.go:179-184  go func() { um.httpServer.Serve(httpListener) }()
InitGoHTTP ==
    /\ pc = "i_go_http"
    /\ httpGo' = "spawned"
    /\ pc' = "i_go_grpc"
    /\ UNCHANGED << initVars, grpcGo, muxGo, muxLaunches, mu, flagVars,
                    waitVars, clientVars, startErr, stopVars, handVars,
                    connVars, auxVars >>

\* Start entered without starting the mux first (waitForServerReady before
\* startMux).
AfterInitializeSkipMux == "w_http"

\* main.go:340-344: Initialize returned nil, main calls Start, whose first
\* statement is um.startMux() (main.go:295).
AfterInitialize == "sm_lock"

\* main.go:186-193  go func() { um.grpcServer.Serve(grpcListener) }(); return nil
InitGoGRPC ==
    /\ pc = "i_go_grpc"
    /\ grpcGo' = "spawned"
    /\ pc' = AfterInitialize
    /\ UNCHANGED << initVars, httpGo, muxGo, muxLaunches, mu, flagVars,
                    waitVars, clientVars, startErr, stopVars, handVars,
                    connVars, auxVars >>

Initialize ==
    \/ InitListen
    \/ InitMux
    \/ InitMatchFirst
    \/ InitMatchSecond
    \/ InitHTTPServer
    \/ InitGRPCServer
    \/ InitGoHTTP
    \/ InitGoGRPC

\* ------------------------------------------------------------------ startMux
\* main.go:197  um.mu.Lock()
startMuxLock ==
    /\ pc = "sm_lock"
    /\ Unlocked
    /\ mu' = [mu EXCEPT !.w = "main"]
    /\ pc' = "sm_check"
    /\ UNCHANGED << initVars, goVars, flagVars, waitVars, clientVars, startErr,
                    stopVars, handVars, connVars, auxVars >>

\* A test of the flag that never sees it set.
sawMuxStartedNever == FALSE

\* main.go:198  if um.muxStarted, read while holding um.mu
sawMuxStarted == muxStarted

\* main.go:198-202: if muxStarted, unlock and return; else muxStarted = true.
startMuxCheck ==
    /\ pc = "sm_check"
    /\ IF sawMuxStarted
          THEN /\ mu' = [mu EXCEPT !.w = "none"]
               /\ pc' = "w_http"
               /\ UNCHANGED muxStarted
          ELSE /\ muxStarted' = TRUE
               /\ pc' = "sm_unlock"
               /\ UNCHANGED mu
    /\ UNCHANGED << initVars, goVars, serverReady, waitVars, clientVars,
                    startErr, stopVars, handVars, connVars, auxVars >>

\* main.go:203  um.mu.Unlock()
startMuxUnlock ==
    /\ pc = "sm_unlock"
    /\ mu' = [mu EXCEPT !.w = "none"]
    /\ pc' = "sm_go"
    /\ UNCHANGED << initVars, goVars, flagVars, waitVars, clientVars, startErr,
                    stopVars, handVars, connVars, auxVars >>

\* main.go:205-210  go func() { um.mux.Serve() }(); startMux returns and
\* Start enters waitForServerReady with attempts = 0 (main.go:216).
startMuxGo ==
    /\ pc = "sm_go"
    /\ muxGo' = "spawned"
    /\ muxLaunches' = muxLaunches + 1
    /\ pc' = "w_http"
    /\ UNCHANGED << initVars, httpGo, grpcGo, mu, flagVars, waitVars,
                    clientVars, startErr, stopVars, handVars, connVars,
                    auxVars >>

startMux ==
    \/ startMuxLock
    \/ startMuxCheck
    \/ startMuxUnlock
    \/ startMuxGo

\* ------------------------------------------- further callers of startMux
\* startMux called by another goroutine, concurrently with main's Start, on
\* an initialized multiplexer (Initialize has returned nil, um.mux is set).
Initialized ==
    pc \notin {"created", "init_err", "i_mux", "i_match_grpc", "i_match_any",
               "i_http_srv", "i_grpc_srv", "i_go_http", "i_go_grpc", "exited"}

\* main.go:197  um.mu.Lock()
startMuxLockBy(i) ==
    /\ auxPc[i] = "idle"
    /\ Initialized
    /\ Unlocked
    /\ mu' = [mu EXCEPT !.w = "caller"]
    /\ auxPc' = [auxPc EXCEPT ![i] = "sm_check"]
    /\ UNCHANGED << pc, initVars, goVars, flagVars, waitVars, clientVars,
                    startErr, stopVars, handVars, connVars >>

\* main.go:198-202: if muxStarted, unlock and return; else muxStarted = true.
startMuxCheckBy(i) ==
    /\ auxPc[i] = "sm_check"
    /\ IF sawMuxStarted
          THEN /\ mu' = [mu EXCEPT !.w = "none"]
               /\ auxPc' = [auxPc EXCEPT ![i] = "returned"]
               /\ UNCHANGED muxStarted
          ELSE /\ muxStarted' = TRUE
               /\ auxPc' = [auxPc EXCEPT ![i] = "sm_unlock"]
               /\ UNCHANGED mu
    /\ UNCHANGED << pc, initVars, goVars, serverReady, waitVars, clientVars,
                    startErr, stopVars, handVars, connVars >>

\* main.go:203  um.mu.Unlock()
startMuxUnlockBy(i) ==
    /\ auxPc[i] = "sm_unlock"
    /\ mu' = [mu EXCEPT !.w = "none"]
    /\ auxPc' = [auxPc EXCEPT ![i] = "sm_go"]
    /\ UNCHANGED << pc, initVars, goVars, flagVars, waitVars, clientVars,
                    startErr, stopVars, handVars, connVars >>

\* main.go:205-210  go func() { um.mux.Serve() }(); startMux returns.
startMuxGoBy(i) ==
    /\ auxPc[i] = "sm_go"
    /\ muxGo' = IF muxGo = "none" THEN "spawned" ELSE muxGo
    /\ muxLaunches' = muxLaunches + 1
    /\ auxPc' = [auxPc EXCEPT ![i] = "returned"]
    /\ UNCHANGED << pc, initVars, httpGo, grpcGo, mu, flagVars, waitVars,
                    clientVars, startErr, stopVars, handVars, connVars >>

startMuxBy(i) ==
    \/ startMuxLockBy(i)
    \/ startMuxCheckBy(i)
    \/ startMuxUnlockBy(i)
    \/ startMuxGoBy(i)

\* -------------------------------------------------------- waitForServerReady
\* A probe dials the port from inside the process: it can only be answered
\* when the real listener is open, the mux accept loop is serving and the
\* protocol server behind the virtual listener is serving.  It may fail at
\* any time (1 second timeouts, main.go:241, 247).
HTTPUp == listener = "open" /\ muxGo = "serving" /\ httpGo = "serving"
GRPCUp == listener = "open" /\ muxGo = "serving" /\ grpcGo = "serving"

\* main.go:216, 222, 230: `continue` runs attempts++ and the loop test.
NextAttempt(n) == IF n + 1 < MaxAttempts THEN "w_http" ELSE "w_fail"

\* A failed gRPC probe that keeps the HTTP result and retries the gRPC probe
\* alone in the next attempt.
AfterGRPCFailureKeepHTTP(n) == IF n + 1 < MaxAttempts THEN "w_grpc" ELSE "w_fail"

\* main.go:227-231: a failed gRPC probe ends the attempt like a failed HTTP
\* probe does.
AfterGRPCFailure(n) == NextAttempt(n)

\* main.go:218-223, 240-244: httpReady := um.checkHTTPReady()
checkHTTPReady ==
    /\ pc = "w_http"
    /\ \E ok \in BOOLEAN :
          /\ ok => HTTPUp
          /\ httpReady' = ok
          /\ probeAt' = [probeAt EXCEPT !.http = attempts]
          /\ IF ok THEN /\ pc' = "w_grpc"
                        /\ UNCHANGED attempts
                   ELSE /\ pc' = NextAttempt(attempts)
                        /\ attempts' = attempts + 1
    /\ UNCHANGED << initVars, goVars, mu, flagVars, grpcReady, clientVars,
                    startErr, stopVars, handVars, connVars, auxVars >>

\* main.go:226-234, 246-260: grpcReady := um.checkGRPCReady(); when it
\* succeeds waitForServerReady returns nil.
checkGRPCReady ==
    /\ pc = "w_grpc"
    /\ \E ok \in BOOLEAN :
          /\ ok => GRPCUp
          /\ grpcReady' = ok
          /\ probeAt' = [probeAt EXCEPT !.grpc = attempts]
          /\ IF ok THEN /\ pc' = "w_ok"
                        /\ UNCHANGED attempts
                   ELSE /\ pc' = AfterGRPCFailure(attempts)
                        /\ attempts' = attempts + 1
    /\ UNCHANGED << initVars, goVars, mu, flagVars, httpReady, clientVars,
                    startErr, stopVars, handVars, connVars, auxVars >>

waitForServerReady ==
    \/ checkHTTPReady
    \/ checkGRPCReady

\* Start going on to initGRPCClient although waitForServerReady failed.
StartIgnoresNotReady ==
    /\ pc = "w_fail"
    /\ pc' = "ic_dial"
    /\ UNCHANGED << initVars, goVars, mu, flagVars, waitVars, clientVars,
                    startErr, stopVars, handVars, connVars, auxVars >>

\* main.go:237, 298-300: the budget is exhausted, waitForServerReady returns
\* an error and Start returns "servers not ready".
StartNotReady ==
    /\ pc = "w_fail"
    /\ pc' = "start_err"
    /\ startErr' = "notready"
    /\ UNCHANGED << initVars, goVars, mu, flagVars, waitVars, clientVars,
                    stopVars, handVars, connVars, auxVars >>

\* main.go:233-234, 298, 303: waitForServerReady returned nil, Start calls
\* initGRPCClient.
StartReady ==
    /\ pc = "w_ok"
    /\ pc' = "ic_dial"
    /\ UNCHANGED << initVars, goVars, mu, flagVars, waitVars, clientVars,
                    startErr, stopVars, handVars, connVars, auxVars >>

\* ------------------------------------------------------------ initGRPCClient
\* main.go:269-275: grpc.DialContext(..., grpc.WithBlock()) returns a
\* connection only when the gRPC endpoint answers; on error initGRPCClient
\* and Start return it (main.go:303-305).
initGRPCClientDial ==
    /\ pc = "ic_dial"
    /\ \E ok \in BOOLEAN :
          /\ ok => GRPCUp
          /\ IF ok THEN /\ conn' = "open"
                        /\ pending' = {"grpcConn", "grpcClient", "serverReady"}
                        /\ pc' = "ic_store"
                        /\ UNCHANGED startErr
                   ELSE /\ pc' = "start_err"
                        /\ startErr' = "dial"
                        /\ UNCHANGED << conn, pending >>
    /\ UNCHANGED << initVars, goVars, mu, flagVars, waitVars, grpcConn,
                    grpcClient, stopVars, handVars, connVars, auxVars >>

\* main.go:277  um.grpcConn = conn
\* main.go:278  um.grpcClient = pb.NewUltraServiceClient(conn)
\* main.go:279  um.serverReady = true
Store(f) ==
    /\ grpcConn' = IF f = "grpcConn" THEN TRUE ELSE grpcConn
    /\ grpcClient' = IF f = "grpcClient" THEN TRUE ELSE grpcClient
    /\ serverReady' = IF f = "serverReady" THEN TRUE ELSE serverReady

\* A Start that returns nil once the client is stored, so that main returns
\* and the process ends.
initGRPCClientStoreThenReturn ==
    /\ pc = "ic_store"
    /\ \E f \in pending :
          /\ Store(f)
          /\ pending' = pending \ {f}
          /\ pc' = IF pending = {f} THEN "exited" ELSE "ic_store"
    /\ UNCHANGED << initVars, goVars, mu, muxStarted, waitVars, conn, startErr,
                    stopVars, handVars, connVars, auxVars >>

\* main.go:277-279 are three plain stores made without holding um.mu while
\* other goroutines read the fields (Stop reads grpcConn, isGRPCClientReady
\* reads serverReady, callGRPC reads grpcClient): a data race.  Nothing
\* orders the stores for another goroutine, so they become visible one at
\* a time in any order.  After the last one Start logs and blocks in
\* select {} (main.go:307-311).
initGRPCClientStore ==
    /\ pc = "ic_store"
    /\ \E f \in pending :
          /\ Store(f)
          /\ pending' = pending \ {f}
          /\ pc' = IF pending = {f} THEN "running" ELSE "ic_store"
    /\ UNCHANGED << initVars, goVars, mu, muxStarted, waitVars, conn, startErr,
                    stopVars, handVars, connVars, auxVars >>

initGRPCClient ==
    \/ initGRPCClientDial
    \/ initGRPCClientStore

Start ==
    \/ startMux
    \/ waitForServerReady
    \/ StartNotReady
    \/ StartReady
    \/ initGRPCClient

\* main.go:340-346: Initialize or Start returned an error, log.Fatalf ends
\* the process.  Stop is not called.
mainFatal ==
    /\ pc \in {"init_err", "start_err"}
    /\ pc' = "exited"
    /\ UNCHANGED << initVars, goVars, mu, flagVars, waitVars, clientVars,
                    startErr, stopVars, handVars, connVars, auxVars >>

\* ------------------------------------------------------- server goroutines
\* main.go:181  um.httpServer.Serve(httpListener): serves until the server
\* is closed; called on a closed server it returns at once.
httpServe ==
    /\ httpGo = "spawned"
    /\ httpGo' = IF httpServer = "closed" THEN "exited" ELSE "serving"
    /\ UNCHANGED << pc, initVars, grpcGo, muxGo, muxLaunches, mu, flagVars,
                    waitVars, clientVars, startErr, stopVars, handVars,
                    connVars, auxVars >>

\* main.go:181-183: Serve returns once httpServer.Close() was called, or
\* once the accept of httpListener fails: mux.Serve closes its virtual
\* listeners when it returns.
httpExit ==
    /\ httpGo = "serving"
    /\ (httpServer = "closed" \/ muxGo = "exited")
    /\ httpGo' = "exited"
    /\ UNCHANGED << pc, initVars, grpcGo, muxGo, muxLaunches, mu, flagVars,
                    waitVars, clientVars, startErr, stopVars, handVars,
                    connVars, auxVars >>

\* main.go:188  um.grpcServer.Serve(grpcListener)
grpcServe ==
    /\ grpcGo = "spawned"
    /\ grpcGo' = IF grpcServer = "closed" THEN "exited" ELSE "serving"
    /\ UNCHANGED << pc, initVars, httpGo, muxGo, muxLaunches, mu, flagVars,
                    waitVars, clientVars, startErr, stopVars, handVars,
                    connVars, auxVars >>

\* main.go:188-190: Serve returns once grpcServer.Stop() was called, or
\* once the accept of grpcListener fails: mux.Serve closes its virtual
\* listeners when it returns.
grpcExit ==
    /\ grpcGo = "serving"
    /\ (grpcServer = "closed" \/ muxGo = "exited")
    /\ grpcGo' = "exited"
    /\ UNCHANGED << pc, initVars, httpGo, muxGo, muxLaunches, mu, flagVars,
                    waitVars, clientVars, startErr, stopVars, handVars,
                    connVars, auxVars >>

\* main.go:207  um.mux.Serve(): the accept loop on the real listener.
muxServe ==
    /\ muxGo = "spawned"
    /\ muxGo' = "serving"
    /\ UNCHANGED << pc, initVars, httpGo, grpcGo, muxLaunches, mu, flagVars,
                    waitVars, clientVars, startErr, stopVars, handVars,
                    connVars, auxVars >>

\* main.go:207-209: Accept on the closed real listener fails and Serve
\* returns the error.
muxExit ==
    /\ muxGo = "serving"
    /\ listener = "closed"
    /\ muxGo' = "exited"
    /\ UNCHANGED << pc, initVars, httpGo, grpcGo, muxLaunches, mu, flagVars,
                    waitVars, clientVars, startErr, stopVars, handVars,
                    connVars, auxVars >>

Goroutines ==
    \/ httpServe
    \/ httpExit
    \/ grpcServe
    \/ grpcExit
    \/ muxServe
    \/ muxExit

\* ---------------------------------------------------------------------- Stop
\* Stop is exported to the rest of the program and may be called from any
\* goroutine at any moment of the startup sequence.
\* main.go:315  um.mu.Lock()
StopLock ==
    /\ stopPc = "idle"
    /\ stopsDone < MaxStops
    /\ Unlocked
    /\ mu' = [mu EXCEPT !.w = "stop"]
    /\ stopPc' = "s_conn"
    /\ UNCHANGED << pc, initVars, goVars, flagVars, waitVars, clientVars,
                    startErr, stopsDone, handVars, connVars, auxVars >>

\* main.go:318-320  if um.grpcConn != nil { um.grpcConn.Close() }
StopConn ==
    /\ stopPc = "s_conn"
    /\ conn' = IF grpcConn THEN "closed" ELSE conn
    /\ stopPc' = "s_http"
    /\ UNCHANGED << pc, initVars, goVars, mu, flagVars, waitVars, grpcConn,
                    grpcClient, pending, startErr, stopsDone, handVars,
                    connVars, auxVars >>

\* A Stop that closes the HTTP server without testing the field for nil.
StopHTTPNoNilCheck ==
    /\ stopPc = "s_http"
    /\ httpServer' = "closed"
    /\ stopPc' = "s_grpc"
    /\ UNCHANGED << pc, listener, mux, matchers, grpcServer, goVars, mu,
                    flagVars, waitVars, clientVars, startErr, stopsDone,
                    handVars, connVars, auxVars >>

\* main.go:322-324  if um.httpServer != nil { um.httpServer.Close() }
StopHTTP ==
    /\ stopPc = "s_http"
    /\ httpServer' = IF httpServer # "nil" THEN "closed" ELSE httpServer
    /\ stopPc' = "s_grpc"
    /\ UNCHANGED << pc, listener, mux, matchers, grpcServer, goVars, mu,
                    flagVars, waitVars, clientVars, startErr, stopsDone,
                    handVars, connVars, auxVars >>

\* main.go:326-328  if um.grpcServer != nil { um.grpcServer.Stop() }
StopGRPC ==
    /\ stopPc = "s_grpc"
    /\ grpcServer' = IF grpcServer # "nil" THEN "closed" ELSE grpcServer
    /\ stopPc' = "s_listener"
    /\ UNCHANGED << pc, listener, mux, matchers, httpServer, goVars, mu,
                    flagVars, waitVars, clientVars, startErr, stopsDone,
                    handVars, connVars, auxVars >>

\* A Stop that leaves the real listener open.
StopListenerSkipped ==
    /\ stopPc = "s_listener"
    /\ stopPc' = "s_unlock"
    /\ UNCHANGED << pc, initVars, goVars, mu, flagVars, waitVars, clientVars,
                    startErr, stopsDone, handVars, connVars, auxVars >>

\* main.go:330-332  if um.listener != nil { um.listener.Close() }
StopListener ==
    /\ stopPc = "s_listener"
    /\ listener' = IF listener # "nil" THEN "closed" ELSE listener
    /\ stopPc' = "s_unlock"
    /\ UNCHANGED << pc, mux, matchers, httpServer, grpcServer, goVars, mu,
                    flagVars, waitVars, clientVars, startErr, stopsDone,
                    handVars, connVars, auxVars >>

\* A Stop that also takes the readiness flag back.
StopReturnClearsReady ==
    /\ stopPc = "s_unlock"
    /\ mu' = [mu EXCEPT !.w = "none"]
    /\ serverReady' = FALSE
    /\ stopPc' = "idle"
    /\ stopsDone' = stopsDone + 1
    /\ UNCHANGED << pc, initVars, goVars, muxStarted, waitVars, clientVars,
                    startErr, handVars, connVars, auxVars >>

\* main.go:316, 334  defer um.mu.Unlock(); return nil
StopReturn ==
    /\ stopPc = "s_unlock"
    /\ mu' = [mu EXCEPT !.w = "none"]
    /\ stopPc' = "idle"
    /\ stopsDone' = stopsDone + 1
    /\ UNCHANGED << pc, initVars, goVars, flagVars, waitVars, clientVars,
                    startErr, handVars, connVars, auxVars >>

Stop ==
    \/ StopLock
    \/ StopConn
    \/ StopHTTP
    \/ StopGRPC
    \/ StopListener
    \/ StopReturn

\* ------------------------------------------------------------------ callGRPC
\* main.go:42-49: the HTTP server hands a request for /grpc-call to
\* callGRPC; requests are served only while the HTTP server is serving.
callGRPCBegin ==
    /\ hPc = "idle"
    /\ hCalls < MaxCalls
    /\ HTTPUp
    /\ hCalls' = hCalls + 1
    /\ hRead' = FALSE
    /\ hInvoked' = FALSE
    /\ hStatus' = "none"
    /\ hPc' = "h_rlock"
    /\ UNCHANGED << pc, initVars, goVars, mu, flagVars, waitVars, clientVars,
                    startErr, stopVars, connVars, auxVars >>

\* main.go:286  um.mu.RLock()
isGRPCClientReadyRLock ==
    /\ hPc = "h_rlock"
    /\ mu.w = "none"
    /\ mu' = [mu EXCEPT !.r = mu.r + 1]
    /\ hPc' = "h_read"
    /\ UNCHANGED << pc, initVars, goVars, flagVars, waitVars, clientVars,
                    startErr, stopVars, hCalls, hRead, hInvoked, hStatus,
                    connVars, auxVars >>

\* main.go:287-288  defer um.mu.RUnlock(); return um.serverReady
isGRPCClientReadyReturn ==
    /\ hPc = "h_read"
    /\ hRead' = serverReady
    /\ mu' = [mu EXCEPT !.r = mu.r - 1]
    /\ hPc' = "h_check"
    /\ UNCHANGED << pc, initVars, goVars, flagVars, waitVars, clientVars,
                    startErr, stopVars, hCalls, hInvoked, hStatus, connVars,
                    auxVars >>

isGRPCClientReady ==
    \/ isGRPCClientReadyRLock
    \/ isGRPCClientReadyReturn

\* A handler that goes on to the gRPC call whatever the flag said.
callGRPCNoCheck ==
    /\ hPc = "h_check"
    /\ hPc' = "h_call"
    /\ UNCHANGED << pc, initVars, goVars, mu, flagVars, waitVars, clientVars,
                    startErr, stopVars, hCalls, hRead, hInvoked, hStatus,
                    connVars, auxVars >>

\* main.go:89-92: not ready: 503 and return.
callGRPCCheck ==
    /\ hPc = "h_check"
    /\ IF hRead
          THEN /\ hPc' = "h_call"
               /\ UNCHANGED hStatus
          ELSE /\ hPc' = "idle"
               /\ hStatus' = "503"
    /\ UNCHANGED << pc, initVars, goVars, mu, flagVars, waitVars, clientVars,
                    startErr, stopVars, hCalls, hRead, hInvoked, connVars,
                    auxVars >>

\* main.go:102-114: h.multiplexer.grpcClient.SayHello(ctx, ...).  A nil
\* grpcClient makes the call panic (net/http recovers it and drops the
\* request); otherwise the call can succeed only over an open connection
\* to a serving gRPC endpoint, and an error is answered with 500.
callGRPCSayHello ==
    /\ hPc = "h_call"
    /\ hInvoked' = TRUE
    /\ hPc' = "idle"
    /\ IF ~grpcClient
          THEN hStatus' = "panic"
          ELSE \E ok \in BOOLEAN :
                  /\ ok => (conn = "open" /\ GRPCUp)
                  /\ hStatus' = IF ok THEN "200" ELSE "500"
    /\ UNCHANGED << pc, initVars, goVars, mu, flagVars, waitVars, clientVars,
                    startErr, stopVars, hCalls, hRead, connVars, auxVars >>

callGRPC ==
    \/ callGRPCBegin
    \/ isGRPCClientReady
    \/ callGRPCCheck
    \/ callGRPCSayHello

\* ------------------------------------------------------- the mux accept loop
\* A client connects to the port: the connection waits in the backlog of
\* the open real listener.
Connect(c, k) ==
    /\ connSt[c] = "idle"
    /\ listener = "open"
    /\ connSt' = [connSt EXCEPT ![c] = "pending"]
    /\ connKind' = [connKind EXCEPT ![c] = k]
    /\ UNCHANGED << pc, initVars, goVars, mu, flagVars, waitVars, clientVars,
                    startErr, stopVars, handVars, delivered, auxVars >>

\* mux.Serve (main.go:207): the accept loop takes the connection from the
\* real listener and hands it to a classification worker of its own.
muxAccept(c) ==
    /\ muxGo = "serving"
    /\ listener = "open"
    /\ connSt[c] = "pending"
    /\ connSt' = [connSt EXCEPT ![c] = "sniffing"]
    /\ UNCHANGED << pc, initVars, goVars, mu, flagVars, waitVars, clientVars,
                    startErr, stopVars, handVars, connKind, delivered,
                    auxVars >>

\* The worker evaluates the registered matchers in order and queues the
\* connection on the virtual listener of the first match; when no matcher
\* accepts, the connection is closed with an error.
muxClassify(c) ==
    /\ connSt[c] = "sniffing"
    /\ LET to == Route(matchers, connKind[c]) IN
          IF to = "none"
             THEN /\ connSt' = [connSt EXCEPT ![c] = "unmatched"]
                  /\ UNCHANGED delivered
             ELSE /\ connSt' = [connSt EXCEPT ![c] = "delivered"]
                  /\ delivered' = [delivered EXCEPT ![c] = Append(@, to)]
    /\ UNCHANGED << pc, initVars, goVars, mu, flagVars, waitVars, clientVars,
                    startErr, stopVars, handVars, connKind, auxVars >>

muxConnections ==
    \/ \E c \in Conns, k \in Kinds : Connect(c, k)
    \/ \E c \in Conns : muxAccept(c)
    \/ \E c \in Conns : muxClassify(c)

\* ------------------------------------------------------------ specifications
\* The process with a caller of Stop and /grpc-call requests.
Next ==
    /\ Alive
    /\ \/ Initialize
       \/ Start
       \/ mainFatal
       \/ Goroutines
       \/ Stop
       \/ callGRPC

Spec == Init /\ [][Next]_vars

\* The process with external clients connecting to the port; nobody calls
\* Stop, so that no server goroutine returns.
NextRoute ==
    /\ Alive
    /\ \/ Initialize
       \/ Start
       \/ mainFatal
       \/ httpServe
       \/ grpcServe
       \/ muxServe
       \/ muxConnections

SpecRoute == Init /\ [][NextRoute]_vars

\* The process with a caller of Stop, under the scheduling the Go runtime
\* gives: main goes on while it can, a runnable goroutine is eventually
\* run, and a call of Stop that holds the lock runs to its return.  No
\* fairness is assumed of the callers: nobody has to call Stop.
NextLive ==
    /\ Alive
    /\ \/ Initialize
       \/ Start
       \/ mainFatal
       \/ Goroutines
       \/ Stop

mainStep == Alive /\ (Initialize \/ Start \/ mainFatal)
goroutineStep == Alive /\ Goroutines
stopStep == Alive /\ (StopConn \/ StopHTTP \/ StopGRPC \/ StopListener \/ StopReturn)

SpecLive ==
    /\ Init
    /\ [][NextLive]_vars
    /\ WF_vars(mainStep)
    /\ WF_vars(goroutineStep)
    /\ WF_vars(stopStep)

\* The process with further goroutines calling startMux while main runs
\* Start; nobody calls Stop.
NextStartMux ==
    /\ Alive
    /\ \/ Initialize
       \/ Start
       \/ mainFatal
       \/ httpServe
       \/ grpcServe
       \/ muxServe
       \/ \E i \in Callers : startMuxBy(i)

SpecStartMux == Init /\ [][NextStartMux]_vars

\* ===================================================================== claims
Classified(c) == connSt[c] \in {"delivered", "unmatched"}

\* C1: with the matchers as Initialize registers them and first-match-wins
\* evaluation, every classified connection that carries HTTP/2 with
\* content-type application/grpc is queued on the gRPC virtual listener and
\* never on the HTTP one, every classified connection of another kind is
\* queued on the HTTP virtual listener, and the same matchers in reversed
\* order would send a gRPC connection elsewhere (to the HTTP listener).
C1_GrpcToGrpcRestToHttp ==
    /\ \A c \in Conns :
          Classified(c) =>
             /\ connKind[c] = "grpc" => delivered[c] = << "grpc" >>
             /\ connKind[c] # "grpc" => delivered[c] = << "http" >>
    /\ Len(matchers) = 2 =>
          /\ Route(matchers, "grpc") = "grpc"
          /\ Route(Reverse(matchers), "grpc") = "http"

\* C1 witness: a gRPC connection was queued on the gRPC listener and a plain
\* HTTP/1.1 connection on the HTTP listener.
C1_Witness ==
    \E c, d \in Conns :
       /\ connKind[c] = "grpc" /\ connSt[c] = "delivered"
       /\ delivered[c] = << "grpc" >>
       /\ connKind[d] = "http1" /\ connSt[d] = "delivered"
       /\ delivered[d] = << "http" >>

\* C2: every connection the accept loop took is queued on exactly one
\* virtual listener, once, or closed when no matcher accepts it; and since
\* the catch-all is registered, no connection is closed unmatched: every
\* connection being sniffed has a matcher that accepts it.
C2_ExactlyOneListener ==
    \A c \in Conns :
       /\ Len(delivered[c]) <= 1
       /\ connSt[c] = "delivered" <=> Len(delivered[c]) = 1
       /\ connSt[c] = "delivered" => delivered[c][1] \in {"grpc", "http"}
       /\ connSt[c] = "unmatched" => Route(matchers, connKind[c]) = "none"
       /\ connSt[c] # "unmatched"
       /\ connSt[c] = "sniffing" => Route(matchers, connKind[c]) # "none"

\* C2 witness: every connection was accepted and classified, one of them
\* matching no specific matcher and taken by the catch-all.
C2_Witness ==
    /\ \A c \in Conns : connSt[c] = "delivered" /\ Len(delivered[c]) = 1
    /\ \E c \in Conns : connKind[c] \in {"h2", "other"}

\* C3: a /grpc-call request answered while serverReady is still false is
\* answered 503, without the loop-back client having been invoked; a request
\* whose readiness check read false is answered 503 and goes no further; and
\* SayHello is invoked only by a request whose readiness check read true,
\* which it reads only when the flag is true.
C3_NotReadyFailsFast ==
    /\ (~serverReady /\ hStatus # "none") => (hStatus = "503" /\ ~hInvoked)
    /\ (~serverReady /\ hCalls > 0) => (~hInvoked /\ hPc # "h_call")
    /\ (~hRead /\ hStatus # "none") => (hStatus = "503" /\ ~hInvoked)
    /\ (hInvoked \/ hPc = "h_call") => (hRead /\ serverReady)

\* C3 witness: a request was answered 503 while the readiness probes of
\* waitForServerReady were still running.
C3_Witness ==
    /\ hStatus = "503"
    /\ hPc = "idle"
    /\ ~serverReady
    /\ pc \in {"w_http", "w_grpc"}

\* C4: the loop-back connection exists, is stored, and serverReady is true
\* only after waitForServerReady returned success: after an attempt, within
\* the budget, whose HTTP probe and gRPC probe both succeeded.
C4_ReadyOnlyAfterConfirmed ==
    (serverReady \/ grpcConn \/ grpcClient \/ conn # "none") =>
       /\ httpReady /\ grpcReady
       /\ probeAt.http = attempts /\ probeAt.grpc = attempts
       /\ attempts < MaxAttempts
       /\ startErr = "none"

\* C4 witness: Start is blocked in select {} with the flag set and the
\* client stored.
C4_Witness ==
    /\ pc = "running"
    /\ serverReady /\ grpcConn /\ grpcClient

\* C5: the gRPC probe of an attempt runs only after the HTTP probe of that
\* same attempt succeeded; every attempt begins with the HTTP probe, with
\* no probe result of an earlier attempt standing; and waitForServerReady
\* returns success only from an attempt in which both probes succeeded.
C5_WholeCheckRetried ==
    /\ pc = "w_http" =>
          /\ attempts < MaxAttempts
          /\ probeAt.http # attempts /\ probeAt.grpc # attempts
          /\ ~grpcReady
    /\ pc = "w_grpc" =>
          /\ httpReady /\ probeAt.http = attempts
          /\ probeAt.grpc # attempts
          /\ ~grpcReady
    /\ pc = "w_ok" =>
          /\ httpReady /\ probeAt.http = attempts
          /\ grpcReady /\ probeAt.grpc = attempts
    /\ pc = "w_fail" => (attempts = MaxAttempts /\ ~grpcReady)

\* C5 witness: the HTTP probe succeeded again in an attempt that follows one
\* in which the HTTP probe succeeded and the gRPC probe failed.
C5_Witness ==
    /\ pc = "w_grpc"
    /\ attempts > 0
    /\ probeAt.grpc = attempts - 1

\* C6: when no attempt of the 20 has both probes succeed, Start returns the
\* not-ready error with no loop-back client created and serverReady false,
\* and by the time the process has handled the error everything started so
\* far has been closed: the loop-back connection, the HTTP server, the gRPC
\* server, the mux accept loop and the real listener.
C6_NotReadyTearsDown ==
    (startErr = "notready" /\ pc = "exited") =>
       /\ attempts = MaxAttempts
       /\ ~serverReady /\ ~grpcClient /\ ~grpcConn /\ conn = "none"
       /\ httpServer = "closed"
       /\ grpcServer = "closed"
       /\ listener = "closed"

\* The orchestrator's state, read off the components:
\*   0 Created  1 ListenerBound  2 MuxBuilt  3 ServersStarted  4 MuxServing
\*   5 ServersReadinessConfirmed  6 LoopbackClientsReady
Stage ==
    IF serverReady THEN 6
    ELSE IF httpReady /\ grpcReady THEN 5
    ELSE IF muxGo # "none" THEN 4
    ELSE IF httpGo # "none" /\ grpcGo # "none" THEN 3
    ELSE IF Len(matchers) = 2 THEN 2
    ELSE IF listener # "nil" THEN 1
    ELSE 0

Probing == pc \in {"w_http", "w_grpc"}
Probed == probeAt.http # MaxAttempts \/ probeAt.grpc # MaxAttempts
Dialing == pc \in {"ic_dial", "ic_store"} \/ conn # "none"

\* C7: the orchestrator goes through Created, ListenerBound, MuxBuilt,
\* ServersStarted, MuxServing, ServersReadinessConfirmed and
\* LoopbackClientsReady one after the other, no state skipped and none
\* left for an earlier one; the matchers are registered only on a bound
\* listener, both protocol servers are started before the mux accept loop
\* is, no readiness probe and no loop-back dial is issued before the mux
\* accept loop was started, and the loop-back client is created last.
C7_StrictStartupOrder ==
    /\ [](/\ (mux \/ matchers # << >>) => listener # "nil"
          /\ (httpGo # "none" \/ grpcGo # "none") =>
                (Len(matchers) = 2 /\ httpServer # "nil" /\ grpcServer # "nil")
          /\ (muxStarted \/ muxGo # "none") =>
                (httpGo # "none" /\ grpcGo # "none")
          /\ (Probing \/ Probed \/ Dialing) => (muxStarted /\ muxGo # "none")
          /\ Dialing => (httpReady /\ grpcReady)
          /\ (grpcConn \/ grpcClient \/ serverReady) => conn # "none")
    /\ [][Stage' = Stage \/ Stage' = Stage + 1]_vars

\* C7 witness: the last state, LoopbackClientsReady, is reached.
C7_Witness ==
    /\ Stage = 6
    /\ pending = {}
    /\ muxGo # "none" /\ httpGo # "none" /\ grpcGo # "none"

\* C8: every write to serverReady and every write to muxStarted is made by
\* a goroutine that holds the write lock of um.mu.
C8_FlagWritesUnderLock ==
    [][(serverReady' # serverReady \/ muxStarted' # muxStarted)
          => mu.w = "main"]_vars

C10_NoLoopbackOpenAfterStop ==
    stopsDone >= 1 => conn # "open"

\* What Stop acts on, and the flags it must leave alone.
Components ==
    << conn, grpcConn, grpcClient, httpServer, grpcServer, listener,
       serverReady, muxStarted >>

NoneOpen ==
    /\ conn # "open"
    /\ httpServer # "open"
    /\ grpcServer # "open"
    /\ listener # "open"

StopStep == stopPc' # stopPc

\* C11: Stop is idempotent: every step of a call of Stop made when nothing
\* is open, that is after an earlier Stop has closed everything or before
\* Initialize has created anything, leaves every component as it was, and
\* the call returns (nil, the only value Stop returns) like the first one.
C11_StopIdempotent ==
    [][(StopStep /\ NoneOpen) =>
          /\ UNCHANGED Components
          /\ UNCHANGED << httpGo, grpcGo, muxGo, pc >>
          /\ (stopPc = "s_unlock" => (stopPc' = "idle" /\ mu'.w = "none"))]_vars

\* C11 witness: a second Stop has returned on a system that the first Stop
\* had closed after it was fully started.
C11_Witness ==
    /\ stopsDone >= 2
    /\ stopPc = "idle"
    /\ pc = "running"
    /\ conn = "closed" /\ httpServer = "closed"
    /\ grpcServer = "closed" /\ listener = "closed"

\* C12: when binding the real listener fails, Initialize returns the error
\* to main at once, without a second net.Listen, and the system is as it
\* was created: no listener stored, no mux, no matcher, no server, no
\* goroutine started; Initialize goes on only with a bound listener.
C12_BindErrorLeavesCreated ==
    /\ []((pc = "init_err" \/ (pc = "exited" /\ startErr = "none")) =>
            /\ listener = "nil" /\ ~mux /\ matchers = << >>
            /\ httpServer = "nil" /\ grpcServer = "nil"
            /\ httpGo = "none" /\ grpcGo = "none" /\ muxGo = "none"
            /\ ~muxStarted /\ ~serverReady /\ conn = "none")
    /\ [][/\ (pc = "created" /\ pc' # "created") =>
                \/ pc' = "i_mux" /\ listener' = "open"
                \/ pc' = "init_err" /\ listener' = "nil"
          /\ pc = "init_err" => pc' \in {"init_err", "exited"}
          /\ pc' = "created" => pc = "created"]_vars

\* C12 witness: main has reported the bind error and ended the process,
\* after a Stop that found nothing to close.
C12_Witness ==
    /\ pc = "exited"
    /\ startErr = "none"
    /\ listener = "nil"
    /\ stopsDone >= 1

\* Every goroutine started by Initialize and startMux has returned, or the
\* process has ended.
Terminated ==
    \/ pc = "exited"
    \/ httpGo = "exited" /\ grpcGo = "exited" /\ muxGo = "exited"

\* C13: once Stop runs on a system whose real listener is bound, so also
\* when the HTTP server, the gRPC server and the mux accept loop are blocked
\* in their accept, each of the three goroutines eventually returns: none
\* started by Initialize or startMux stays blocked for ever.
C13_GoroutinesUnblock ==
    (stopPc = "s_conn" /\ listener # "nil") ~> Terminated

\* C13 witness: Stop has returned, having been called while the three
\* goroutines were serving, and all three have returned.
C13_Witness ==
    /\ stopsDone = 1 /\ stopPc = "idle"
    /\ pc = "running"
    /\ httpGo = "exited" /\ grpcGo = "exited" /\ muxGo = "exited"

\* The calls of startMux that saw muxStarted false and have not yet reached
\* their go statement.
Launching ==
    Cardinality({i \in Callers : auxPc[i] \in {"sm_unlock", "sm_go"}})
       + (IF pc \in {"sm_unlock", "sm_go"} THEN 1 ELSE 0)

\* C14: whatever the number of calls of startMux and however they
\* interleave, go mux.Serve() is executed at most once: exactly one call,
\* the one that found muxStarted false, launches the goroutine, and every
\* call that has returned without launching left it to that one.
C14_MuxLaunchedOnce ==
    /\ muxLaunches <= 1
    /\ Launching + muxLaunches = (IF muxStarted THEN 1 ELSE 0)
    /\ muxGo # "none" <=> muxLaunches = 1

\* C14 witness: main and every other caller have returned from startMux,
\* the goroutine was launched by a caller other than main.
C14_Witness ==
    /\ \A i \in Callers : auxPc[i] = "returned"
    /\ pc \in {"w_http", "w_grpc"}
    /\ muxLaunches = 1
    /\ attempts = 0 /\ probeAt.http = MaxAttempts
    /\ muxGo = "spawned"

\* C15: a request to which isGRPCClientReady returned true finds the
\* loop-back client and its connection stored: grpcClient and grpcConn are
\* non-nil whenever the readiness check has passed, so the handler never
\* calls through a nil client.
C15_ReadyImpliesClientStored ==
    /\ hRead => (grpcClient /\ grpcConn)
    /\ hStatus # "panic"

\* C16: Start returns only with an error, not-ready after the whole budget
\* or a failed dial after confirmed readiness; once the probes were answered
\* and the dial succeeded Start eventually has serverReady true and is
\* blocked in select {}, where it stays for ever.
C16_StartBlocksOrFails ==
    /\ [](/\ pc = "start_err" => startErr \in {"notready", "dial"}
          /\ pc = "exited" => (startErr \in {"notready", "dial"} \/ listener = "nil")
          /\ startErr = "notready" => (attempts = MaxAttempts /\ ~serverReady)
          /\ startErr = "dial" => (httpReady /\ grpcReady /\ ~serverReady)
          /\ pc = "running" => (serverReady /\ startErr = "none"))
    /\ [][pc = "running" => pc' = "running"]_vars
    /\ (pc = "ic_store") ~> (pc = "running" /\ serverReady)

\* C16 witness: Start is blocked with serverReady true after probes that
\* failed at first and then succeeded, and stays there while the goroutines
\* go on.
C16_Witness ==
    /\ pc = "running"
    /\ serverReady
    /\ attempts > 0
    /\ stopsDone = 0

====
